---- MODULE Spec2Model ----
(***************************************************************************)
(* Model of the task core of the woi runtime (woi/src/task/raw.rs): one    *)
(* task allocation holding Header (lifecycle State, join waker), the       *)
(* embedded scheduler and the Status cell, together with the parties that  *)
(* act on it: the executor draining the scheduler's queue, the future      *)
(* running inside poll, the holders of waker clones, and the join side.    *)
(*                                                                         *)
(* The runtime is single threaded: while poll is on the stack (pc =        *)
(* "polling") only the future's own code runs, and it reaches the task     *)
(* through the context waker or through waker clones it kept.              *)
(***************************************************************************)
EXTENDS Integers, Sequences, FiniteSets, TLC

\* ---- bounds ----
MaxPending == 2      \* a future returns Pending at most this many times
MaxWakers == 3       \* waker clones held at the same time
MaxQueue == 2        \* handles the scheduler holds at the same time

Outputs == {"42", "done"}
RunStates == {"Idle", "Running", "Scheduled", "Complete"}
TaskPtr == "task"    \* the address of the allocation (= address of Header)

VARIABLES
  allocated,        \* the allocation made by new has not been passed to dealloc
  freeCount,        \* number of alloc::dealloc calls on the allocation
  ref_count,        \* Header.state: reference count
  run_state,        \* Header.state: Idle / Running / Scheduled / Complete
  has_join_waiter,  \* Header.state: join-waiter flag
  join_waker,       \* Header.waker is Some
  status,           \* Status<F>: [tag, fut, out]
  queue,            \* Task handles the scheduler accepted, not yet polled
  wakers,           \* live waker clones (held by the future or event sources)
  join_live,        \* the join side has not called drop_join_handle yet
  pc,               \* "idle", or "polling" while future.poll(cx) is running
  dst,              \* outputs written to get_output's destination
  join_wakes,       \* number of times the join waker has been woken
  join_wake_status, \* tag of Status when wake_join_handle last ran
  fatal,            \* a panic ended the execution context
  uaf,              \* an operation touched the allocation after dealloc
  lastOp,           \* the operation that made the last step
  lastPre,          \* run_state and Status tag when that operation began
  destroyed         \* values of the allocation whose destructor has run

vars == <<allocated, freeCount, ref_count, run_state, has_join_waiter,
          join_waker, status, queue, wakers, join_live, pc, dst, join_wakes,
          join_wake_status, fatal, uaf, lastOp, lastPre, destroyed>>

\* ---- Status<F> ----
StatusRunning(f) == [tag |-> "Running", fut |-> f, out |-> "-"]
StatusFinished(o) == [tag |-> "Finished", fut |-> "-", out |-> o]
StatusConsumed == [tag |-> "Consumed", fut |-> "-", out |-> "-"]

\* A future: it returns Pending `left` more times, then Ready(out).
Futures == [left : 0..MaxPending, out : Outputs]

\* Future::poll: one step of the computation.
FuturePoll(f) ==
  IF f.left = 0 THEN [ready |-> TRUE, out |-> f.out, fut |-> f]
  ELSE [ready |-> FALSE, out |-> "-", fut |-> [f EXCEPT !.left = f.left - 1]]

\* ---- State (task/state.rs) ----
StateNew == [ref_count |-> 1, run_state |-> "Idle", has_join_waiter |-> FALSE]
transition_to_running(s) == "Running"
transition_to_idle(s) == "Idle"
transition_to_scheduled(s) == "Scheduled"
transition_to_complete(s) == "Complete"

\* The execution context is still running: no panic has ended it, and the
\* allocation has not been freed twice (a double free is where the model
\* stops following the execution).
Alive == ~fatal /\ freeCount < 2

Pre == [run |-> run_state, tag |-> status.tag]

\* Every operation dereferences the Header through from_ptr.
Touch == uaf' = (uaf \/ ~allocated)

\* alloc::dealloc of the allocation.  The memory is handed back as it is:
\* no drop_in_place runs on the scheduler or on the Status cell.
dealloc == allocated' = FALSE /\ freeCount' = freeCount + 1

\* A variant of the release that frees one reference too early.
Release_early ==
  IF ref_count = 0
  THEN fatal' = TRUE /\ UNCHANGED <<ref_count, allocated, freeCount>>
  ELSE /\ ref_count' = ref_count - 1
       /\ UNCHANGED fatal
       /\ IF ref_count - 1 <= 1 THEN dealloc
          ELSE UNCHANGED <<allocated, freeCount>>

\* ref_decr followed by `if ref_count() == 0 { dealloc }`; ref_decr panics
\* when the count is already zero.
Release ==
  IF ref_count = 0
  THEN fatal' = TRUE /\ UNCHANGED <<ref_count, allocated, freeCount>>
  ELSE /\ ref_count' = ref_count - 1
       /\ UNCHANGED fatal
       /\ IF ref_count - 1 = 0 THEN dealloc
          ELSE UNCHANGED <<allocated, freeCount>>

Init ==
  /\ allocated = TRUE
  /\ freeCount = 0
  /\ ref_count = StateNew.ref_count
  /\ run_state = StateNew.run_state
  /\ has_join_waiter = StateNew.has_join_waiter
  /\ join_waker = FALSE
  /\ status \in {StatusRunning(f) : f \in Futures}
  /\ queue = <<>>
  /\ wakers = 0
  /\ join_live = TRUE
  /\ pc = "idle"
  /\ dst = <<>>
  /\ join_wakes = 0
  /\ join_wake_status = "none"
  /\ fatal = FALSE
  /\ uaf = FALSE
  /\ lastOp = "new"
  /\ lastPre = [run |-> "Idle", tag |-> "Running"]
  /\ destroyed = {}

\* A variant of schedule that hands the task to the scheduler twice.
schedule_twice(ptr) == queue' = queue \o <<ptr, ptr>>

\* RawTask::schedule: wrap the pointer in a Task and pass it to the scheduler.
schedule(ptr) == queue' = Append(queue, ptr)

\* The vtable's schedule entry, called by the creator to submit the new task.
Spawn ==
  /\ Alive /\ pc = "idle" /\ lastOp = "new"
  /\ Len(queue) < MaxQueue
  /\ schedule(TaskPtr)
  /\ Touch
  /\ lastOp' = "schedule" /\ lastPre' = Pre
  /\ UNCHANGED destroyed
  /\ UNCHANGED <<allocated, freeCount, ref_count, run_state, has_join_waiter,
                 join_waker, status, wakers, join_live, pc, dst, join_wakes,
                 join_wake_status, fatal>>

\* RawTask::clone_waker, on a held clone or on the context waker.
clone_waker ==
  /\ Alive /\ (wakers > 0 \/ pc = "polling")
  /\ wakers < MaxWakers
  /\ ref_count' = ref_count + 1
  /\ wakers' = wakers + 1
  /\ Touch
  /\ lastOp' = "clone_waker" /\ lastPre' = Pre
  /\ UNCHANGED destroyed
  /\ UNCHANGED <<allocated, freeCount, run_state, has_join_waiter, join_waker,
                 status, queue, join_live, pc, dst, join_wakes,
                 join_wake_status, fatal>>

\* RawTask::drop_waker, dropping a held clone.
drop_waker ==
  /\ Alive /\ wakers > 0
  /\ wakers' = wakers - 1
  /\ Release
  /\ Touch
  /\ lastOp' = "drop_waker" /\ lastPre' = Pre
  /\ UNCHANGED destroyed
  /\ UNCHANGED <<run_state, has_join_waiter, join_waker, status, queue,
                 join_live, pc, dst, join_wakes, join_wake_status>>

\* RawTask::wake: Waker::wake(self) consumes the clone without running
\* drop_waker; the reference count is left as it is.
wake ==
  /\ Alive /\ wakers > 0
  /\ Len(queue) < MaxQueue
  /\ wakers' = wakers - 1
  /\ run_state' = transition_to_scheduled(run_state)
  /\ schedule(TaskPtr)
  /\ Touch
  /\ lastOp' = "wake" /\ lastPre' = Pre
  /\ UNCHANGED destroyed
  /\ UNCHANGED <<allocated, freeCount, ref_count, has_join_waiter, join_waker,
                 status, join_live, pc, dst, join_wakes, join_wake_status,
                 fatal>>

\* RawTask::wake_by_ref, on a held clone or on the context waker.
wake_by_ref ==
  /\ Alive /\ (wakers > 0 \/ pc = "polling")
  /\ Len(queue) < MaxQueue
  /\ run_state' = transition_to_scheduled(run_state)
  /\ schedule(TaskPtr)
  /\ Touch
  /\ lastOp' = "wake_by_ref" /\ lastPre' = Pre
  /\ UNCHANGED destroyed
  /\ UNCHANGED <<allocated, freeCount, ref_count, has_join_waiter, join_waker,
                 status, wakers, join_live, pc, dst, join_wakes,
                 join_wake_status, fatal>>

\* A variant of the start of poll that moves to Running before it checks
\* Status.
PollStart_late ==
  /\ Alive /\ pc = "idle" /\ queue # <<>>
  /\ queue' = Tail(queue)
  /\ Touch
  /\ lastOp' = "poll" /\ lastPre' = Pre
  /\ UNCHANGED destroyed
  /\ IF status.tag = "Running"
     THEN /\ run_state' = transition_to_running(run_state)
          /\ pc' = "polling"
          /\ UNCHANGED <<allocated, freeCount, ref_count, fatal>>
     ELSE /\ fatal' = TRUE
          /\ \E unwind \in BOOLEAN :
               IF unwind /\ ref_count > 0
               THEN /\ ref_count' = ref_count - 1
                    /\ IF ref_count - 1 = 0 THEN dealloc
                       ELSE UNCHANGED <<allocated, freeCount>>
               ELSE UNCHANGED <<allocated, freeCount, ref_count>>
          /\ run_state' = transition_to_running(run_state)
          /\ UNCHANGED pc
  /\ UNCHANGED <<has_join_waiter, join_waker, status, wakers, join_live, dst,
                 join_wakes, join_wake_status>>

\* RawTask::poll up to the call of the future: build the context waker from
\* the handle, check Status, transition_to_running.  A Status other than
\* Running panics ("Wrong stage") with the context waker already built; the
\* unwinding drops that waker (drop_waker) unless the build aborts on panic.
PollStart ==
  /\ Alive /\ pc = "idle" /\ queue # <<>>
  /\ queue' = Tail(queue)
  /\ Touch
  /\ lastOp' = "poll" /\ lastPre' = Pre
  /\ UNCHANGED destroyed
  /\ IF status.tag = "Running"
     THEN /\ run_state' = transition_to_running(run_state)
          /\ pc' = "polling"
          /\ UNCHANGED <<allocated, freeCount, ref_count, fatal>>
     ELSE /\ fatal' = TRUE
          /\ \E unwind \in BOOLEAN :
               IF unwind /\ ref_count > 0
               THEN /\ ref_count' = ref_count - 1
                    /\ IF ref_count - 1 = 0 THEN dealloc
                       ELSE UNCHANGED <<allocated, freeCount>>
               ELSE UNCHANGED <<allocated, freeCount, ref_count>>
          /\ UNCHANGED <<run_state, pc>>
  /\ UNCHANGED <<has_join_waiter, join_waker, status, wakers, join_live, dst,
                 join_wakes, join_wake_status>>

\* Header::wake_join_handle: take the stored join waker, if any, and wake it.
wake_join_handle ==
  /\ join_wakes' = join_wakes + (IF join_waker THEN 1 ELSE 0)
  /\ join_waker' = FALSE
  /\ join_wake_status' = status.tag

\* A variant of poll's Ready arm that wakes the join waker without testing
\* has_join_waker.
poll_ready_nocheck(out) ==
  /\ run_state' = transition_to_complete(run_state)
  /\ wake_join_handle
  /\ status' = StatusFinished(out)
  /\ destroyed' = destroyed \cup {"future"}
  /\ lastOp' = "poll_ready"

\* poll, the Poll::Ready(out) arm.  The assignment to *raw.status drops the
\* Running(future) value it overwrites.
poll_ready(out) ==
  /\ run_state' = transition_to_complete(run_state)
  /\ IF has_join_waiter THEN wake_join_handle
     ELSE UNCHANGED <<join_wakes, join_waker, join_wake_status>>
  /\ status' = StatusFinished(out)
  /\ destroyed' = destroyed \cup {"future"}
  /\ lastOp' = "poll_ready"

\* A variant of poll's Pending arm that leaves the run state as it is.
poll_pending_stuck(f) ==
  /\ run_state' = run_state
  /\ status' = StatusRunning(f)
  /\ lastOp' = "poll_pending"
  /\ UNCHANGED <<join_wakes, join_waker, join_wake_status, destroyed>>

\* poll, the Poll::Pending arm.
poll_pending(f) ==
  /\ run_state' = transition_to_idle(run_state)
  /\ status' = StatusRunning(f)
  /\ lastOp' = "poll_pending"
  /\ UNCHANGED <<join_wakes, join_waker, join_wake_status, destroyed>>

\* RawTask::poll from the return of future.poll(cx) to the end of the
\* function, where the context waker goes out of scope (drop_waker).
PollFinish ==
  /\ Alive /\ pc = "polling"
  /\ pc' = "idle"
  /\ Touch
  /\ lastPre' = Pre
  /\ LET r == FuturePoll(status.fut) IN
       IF r.ready THEN poll_ready(r.out) ELSE poll_pending(r.fut)
  /\ Release
  /\ UNCHANGED <<has_join_waiter, queue, wakers, join_live, dst>>

\* A variant of get_output that reads the output and leaves Status alone.
get_output_keep ==
  /\ Alive /\ pc = "idle" /\ join_live
  /\ IF status.tag = "Finished"
     THEN dst' = Append(dst, status.out) /\ UNCHANGED <<fatal, status>>
     ELSE fatal' = TRUE /\ status' = StatusConsumed /\ UNCHANGED dst
  /\ Touch
  /\ destroyed' = IF status.tag = "Running" THEN destroyed \cup {"future"}
                  ELSE destroyed
  /\ lastOp' = "get_output" /\ lastPre' = Pre
  /\ UNCHANGED <<allocated, freeCount, ref_count, run_state, has_join_waiter,
                 join_waker, queue, wakers, join_live, pc, join_wakes,
                 join_wake_status>>

\* RawTask::get_output: mem::replace(status, Consumed), then match on the
\* value that was there; anything but Finished panics.  A Finished output
\* moves to the caller; a Running future taken out of the cell is dropped.
get_output ==
  /\ Alive /\ pc = "idle" /\ join_live
  /\ status' = StatusConsumed
  /\ IF status.tag = "Finished"
     THEN dst' = Append(dst, status.out) /\ UNCHANGED fatal
     ELSE fatal' = TRUE /\ UNCHANGED dst
  /\ Touch
  /\ destroyed' = IF status.tag = "Running" THEN destroyed \cup {"future"}
                  ELSE destroyed
  /\ lastOp' = "get_output" /\ lastPre' = Pre
  /\ UNCHANGED <<allocated, freeCount, ref_count, run_state, has_join_waiter,
                 join_waker, queue, wakers, join_live, pc, join_wakes,
                 join_wake_status>>

\* A variant of drop_join_handle that leaves the join-waiter flag set.
drop_join_handle_keepflag ==
  /\ Alive /\ pc = "idle" /\ join_live
  /\ join_live' = FALSE
  /\ Release
  /\ Touch
  /\ lastOp' = "drop_join_handle" /\ lastPre' = Pre
  /\ UNCHANGED destroyed
  /\ UNCHANGED <<run_state, has_join_waiter, join_waker, status, queue,
                 wakers, pc, dst, join_wakes, join_wake_status>>

\* RawTask::drop_join_handle.
drop_join_handle ==
  /\ Alive /\ pc = "idle" /\ join_live
  /\ join_live' = FALSE
  /\ has_join_waiter' = FALSE
  /\ Release
  /\ Touch
  /\ lastOp' = "drop_join_handle" /\ lastPre' = Pre
  /\ UNCHANGED destroyed
  /\ UNCHANGED <<run_state, join_waker, status, queue, wakers, pc, dst,
                 join_wakes, join_wake_status>>

\* The join side registers its waker in the Header while the task has not
\* completed (Header.waker = Some, State join-waiter flag set).
set_join_waker ==
  /\ Alive /\ pc = "idle" /\ join_live
  /\ ~has_join_waiter /\ run_state # "Complete"
  /\ has_join_waiter' = TRUE
  /\ join_waker' = TRUE
  /\ Touch
  /\ lastOp' = "set_join_waker" /\ lastPre' = Pre
  /\ UNCHANGED destroyed
  /\ UNCHANGED <<allocated, freeCount, ref_count, run_state, status, queue,
                 wakers, join_live, pc, dst, join_wakes, join_wake_status,
                 fatal>>

\* Touching the allocation after dealloc is undefined: besides running on the
\* stale contents (the operations above) the access may end the process.
Crash ==
  /\ Alive /\ ~allocated
  /\ wakers > 0 \/ join_live \/ queue # <<>> \/ pc = "polling"
  /\ fatal' = TRUE
  /\ uaf' = TRUE
  /\ lastOp' = "crash" /\ lastPre' = Pre
  /\ UNCHANGED destroyed
  /\ UNCHANGED <<allocated, freeCount, ref_count, run_state, has_join_waiter,
                 join_waker, status, queue, wakers, join_live, pc, dst,
                 join_wakes, join_wake_status>>

Next ==
  \/ Spawn
  \/ clone_waker
  \/ drop_waker
  \/ wake
  \/ wake_by_ref
  \/ PollStart
  \/ PollFinish
  \/ get_output
  \/ drop_join_handle
  \/ set_join_waker
  \/ Crash

Spec == Init /\ [][Next]_vars

\* ---- a task driven by a fair executor ----

\* poll returns for a future that wakes its waker whenever it returns
\* Pending: by then a handle is queued or a clone is kept for a later wake.
PollFinishWoken ==
  /\ pc = "polling" /\ status.tag = "Running"
  /\ FuturePoll(status.fut).ready \/ queue # <<>> \/ wakers > 0
  /\ PollFinish

\* The future wakes the context waker before it returns Pending.
FutureWakes ==
  /\ pc = "polling" /\ queue = <<>> /\ wakers = 0
  /\ wake_by_ref

LiveNext ==
  \/ Spawn
  \/ PollStart
  \/ PollFinishWoken
  \/ clone_waker
  \/ wake
  \/ wake_by_ref
  \/ Crash

\* The creator submits the task, the executor polls every handle the
\* scheduler accepted, a running poll returns, kept clones are woken.
LiveSpec ==
  /\ Init /\ [][LiveNext]_vars
  /\ WF_vars(Spawn)
  /\ WF_vars(PollStart)
  /\ WF_vars(PollFinishWoken)
  /\ WF_vars(FutureWakes)
  /\ WF_vars(wake)

\* ---- properties ----

WakeOps == {"wake", "wake_by_ref"}

\* References that exist: waker clones, Task handles (in the scheduler's
\* queue or in the executor's hands during poll) and the join side.
LiveRefs ==
  wakers + Len(queue) + (IF pc = "polling" THEN 1 ELSE 0)
         + (IF join_live THEN 1 ELSE 0)

\* C1: ref_count is positive until the allocation is freed, the allocation is
\* freed exactly once and with ref_count at 0, and no operation touches the
\* task after it has been freed.
C1_RefCountLifetime ==
  /\ allocated => ref_count > 0
  /\ freeCount <= 1
  /\ (freeCount = 1 /\ ~uaf) => ref_count = 0
  /\ ~uaf

\* C2: ref_count equals the number of live references: waker clones, Task
\* handles (queued by schedule or being polled) and the join side.
C2_RefCountIsLiveRefs == allocated => ref_count = LiveRefs

\* C3: every poll call starts with run_state Idle or Scheduled and Status
\* Running, whatever wakes came before.
C3_PollPrecondition ==
  (lastOp = "poll" /\ ~uaf) =>
     lastPre.run \in {"Idle", "Scheduled"} /\ lastPre.tag = "Running"

\* C4: a poll that reached the future ends with run_state Complete and
\* Status Finished(out) when the future returned Ready(out), and with
\* run_state Idle and Status Running holding the same (advanced) future when
\* it returned Pending.
C4_PollOutcome ==
  [][(pc = "polling" /\ pc' = "idle") =>
       (LET r == FuturePoll(status.fut) IN
          IF r.ready
          THEN run_state' = "Complete" /\ status' = StatusFinished(r.out)
          ELSE run_state' = "Idle" /\ status' = StatusRunning(r.fut))]_vars

C4_Witness ==
  /\ lastOp = "poll_pending" /\ lastPre.tag = "Running" /\ allocated
  /\ run_state = "Idle" /\ status.tag = "Running"

\* C5: the join waker is woken only by the poll that moves run_state to
\* Complete, only with the join-waiter flag set, and at most once; a
\* completing poll with a registered waiter wakes it, one without a waiter
\* wakes nothing and does not panic; a poll returning Pending wakes nothing.
C5_JoinNotification ==
  [][/\ join_wakes' # join_wakes =>
          /\ lastOp' = "poll_ready" /\ pc = "polling"
          /\ run_state' = "Complete"
          /\ has_join_waiter
          /\ join_wakes = 0 /\ join_wakes' = 1
     /\ (lastOp' = "poll_ready" /\ pc = "polling") =>
          IF has_join_waiter /\ join_waker
          THEN join_wakes' = join_wakes + 1
          ELSE join_wakes' = join_wakes /\ (allocated => ~fatal')
     /\ lastOp' = "poll_pending" => join_wakes' = join_wakes]_vars

C5_Witness ==
  /\ lastOp = "poll_ready" /\ has_join_waiter /\ join_wakes = 1
  /\ run_state = "Complete" /\ ~uaf

\* C6: get_output delivers the output and sets Status to Consumed exactly
\* when Status is Finished; otherwise it panics and delivers nothing; at
\* most one call ever delivers.
C6_GetOutput ==
  [][lastOp' = "get_output" =>
       IF status.tag = "Finished"
       THEN /\ dst = <<>> /\ dst' = <<status.out>>
            /\ status' = StatusConsumed /\ fatal' = fatal
       ELSE fatal' /\ dst' = dst]_vars

C6_Witness ==
  /\ lastOp = "get_output" /\ lastPre.tag = "Finished"
  /\ Len(dst) = 1 /\ status.tag = "Consumed" /\ ~fatal /\ ~uaf

\* C7: Status only moves Running -> Finished -> Consumed, in every step.
C7_StatusOrder ==
  [][/\ status.tag = "Running" => status'.tag \in {"Running", "Finished"}
     /\ status.tag = "Finished" => status'.tag \in {"Finished", "Consumed"}
     /\ status.tag = "Consumed" => status'.tag = "Consumed"]_vars

\* C8: wake or wake_by_ref on an Idle task sets run_state to Scheduled and
\* hands exactly one handle, with the task's own address, to the scheduler.
C8_WakeIdle ==
  [][(lastOp' \in WakeOps /\ run_state = "Idle") =>
       run_state' = "Scheduled" /\ queue' = Append(queue, TaskPtr)]_vars

C8_Witness ==
  /\ lastOp \in WakeOps /\ lastPre.run = "Idle" /\ run_state = "Scheduled"
  /\ queue # <<>> /\ ~uaf

\* C9: once run_state is Complete it stays Complete, a wake leaves Status
\* unchanged, and the allocation is not freed twice.
C9_CompleteIsStable ==
  [][(run_state = "Complete" /\ allocated) =>
       /\ run_state' = "Complete"
       /\ lastOp' \in WakeOps => status' = status
       /\ freeCount' <= 1]_vars

\* C10: a wake of a task that is already Scheduled leaves run_state
\* Scheduled and does not hand the task to the scheduler again.
C10_DuplicateWake ==
  [][(lastOp' \in WakeOps /\ run_state = "Scheduled" /\ allocated) =>
       run_state' = "Scheduled" /\ queue' = queue]_vars

\* C11: clone_waker raises ref_count by exactly 1 and drop_waker lowers it
\* by exactly 1, neither touching run_state, Status or the join flag; the
\* allocation is freed by the drop that takes the count to 0 and by no
\* earlier drop.
C11_CloneDropCount ==
  [][/\ (lastOp' = "clone_waker" /\ allocated) =>
          /\ ref_count' = ref_count + 1
          /\ allocated' /\ freeCount' = freeCount
          /\ run_state' = run_state /\ status' = status
          /\ has_join_waiter' = has_join_waiter
     /\ (lastOp' = "drop_waker" /\ allocated) =>
          /\ ref_count' = ref_count - 1
          /\ allocated' = (ref_count' # 0)
          /\ freeCount' = freeCount + (IF ref_count' = 0 THEN 1 ELSE 0)
          /\ run_state' = run_state /\ status' = status
          /\ has_join_waiter' = has_join_waiter]_vars

C11_Witness ==
  /\ lastOp = "drop_waker" /\ ~allocated /\ freeCount = 1 /\ ref_count = 0
  /\ ~uaf /\ ~fatal

\* C12: a task whose future completes on its first poll and keeps no waker
\* goes through poll, get_output, drop_join_handle without a panic: after
\* the poll it is still allocated with run_state Complete and Status
\* Finished, get_output delivers the output, and drop_join_handle (no
\* earlier step) frees the allocation.
C12_ScenarioA ==
  /\ (lastOp = "poll_ready" /\ wakers = 0 /\ queue = <<>> /\ join_live
        /\ ~uaf) =>
       /\ allocated /\ ~fatal
       /\ run_state = "Complete" /\ status.tag = "Finished"
  /\ (lastOp = "get_output" /\ lastPre.tag = "Finished" /\ wakers = 0
        /\ queue = <<>>) =>
       allocated /\ ~uaf /\ ~fatal /\ Len(dst) = 1
  /\ (lastOp = "drop_join_handle" /\ status.tag = "Consumed" /\ wakers = 0
        /\ queue = <<>>) =>
       ~allocated /\ freeCount = 1 /\ ~uaf /\ ~fatal

\* C13: drop_join_handle clears the join-waiter flag, lowers ref_count by
\* exactly 1, frees the allocation exactly when the count is then 0, and
\* leaves run_state and Status alone; a task completing after its join
\* handle was dropped wakes no join waker.
C13_DropJoinHandle ==
  [][/\ (lastOp' = "drop_join_handle" /\ allocated) =>
          /\ ~has_join_waiter'
          /\ ref_count' = ref_count - 1
          /\ allocated' = (ref_count' # 0)
          /\ freeCount' = freeCount + (IF ref_count' = 0 THEN 1 ELSE 0)
          /\ run_state' = run_state /\ status' = status
     /\ (lastOp' = "poll_ready" /\ ~join_live) =>
          join_wakes' = join_wakes]_vars

C13_Witness ==
  /\ lastOp = "poll_ready" /\ ~join_live /\ join_waker /\ join_wakes = 0
  /\ run_state = "Complete" /\ ~uaf

\* C14: when the allocation is released, the embedded scheduler and the
\* value Status holds at that moment (an unfinished future, or an output
\* that was never taken) have been destroyed.
C14_DestroyedWithAllocation ==
  (~allocated /\ ~uaf) =>
     /\ "scheduler" \in destroyed
     /\ status.tag = "Running" => "future" \in destroyed
     /\ status.tag = "Finished" => "output" \in destroyed

\* C15: under a fair executor, a task whose future wakes its waker each
\* time it returns Pending eventually has run_state Complete and Status
\* Finished, with no panic and no access to freed memory on the way.
C15_DrivenToCompletion ==
  /\ [](status.tag = "Running" => ~fatal /\ ~uaf)
  /\ <>(run_state = "Complete" /\ status.tag = "Finished")

\* C16: when the join waker is woken by the completing poll, Status already
\* holds Finished(out).
C16_OutputStoredBeforeJoinWake ==
  join_wakes > 0 => join_wake_status = "Finished"

\* C17: transition_to_running is applied only from Idle or Scheduled, and
\* transition_to_idle / transition_to_complete only from Running.
C17_RunStateOrder ==
  /\ (lastOp = "poll" /\ ~fatal /\ ~uaf) =>
       lastPre.run \in {"Idle", "Scheduled"}
  /\ (lastOp \in {"poll_pending", "poll_ready"} /\ ~uaf) =>
       lastPre.run = "Running"

\* C18: the end of a poll call, where the context waker goes out of scope,
\* leaves ref_count as it is and does not free the task.
C18_PollKeepsRefCount ==
  [][(pc = "polling" /\ pc' = "idle" /\ allocated) =>
       ref_count' = ref_count /\ allocated']_vars

\* C19: a wake issued while the task is Running is not lost: when that poll
\* has returned Pending and the scheduler holds a handle of the task,
\* run_state is Scheduled.
C19_QueuedIsScheduled ==
  (lastOp = "poll_pending" /\ queue # <<>> /\ allocated /\ ~fatal) =>
     run_state = "Scheduled"

\* C20: a poll call on a task whose Status is Finished or Consumed panics
\* with the future not run, run_state not moved to Running, Status
\* unchanged and the join waker not woken.
C20_PollWrongStage ==
  [][(lastOp' = "poll" /\ status.tag \in {"Finished", "Consumed"}) =>
       /\ fatal'
       /\ pc' = "idle"
       /\ run_state' = run_state
       /\ status' = status
       /\ join_wakes' = join_wakes /\ join_waker' = join_waker]_vars

C20_Witness ==
  /\ lastOp = "poll" /\ fatal /\ lastPre.tag \in {"Finished", "Consumed"}
  /\ pc = "idle" /\ status.tag = lastPre.tag /\ run_state = lastPre.run
  /\ ~uaf

====
